---------------------------- MODULE Spec2Model ----------------------------
(***************************************************************************)
(* A model of capa/rules.py: the rule-definition compiler                  *)
(* (build_statements and its literal grammars), Rule.from_dict, subscope   *)
(* extraction, the dependency checks and RuleSet construction.             *)
(*                                                                         *)
(* Python values are tagged with their type, so that isinstance() is a     *)
(* test of the tag: a str is [t |-> "str", v |-> <<characters>>], an int   *)
(* is [t |-> "int", v |-> <<n>>], a list is [t |-> "list", v |-> <<..>>],  *)
(* a dict is [t |-> "dict", v |-> <<[k |-> key, v |-> value], ..>>].       *)
(* A call returns Ok(value) or Raise(exception class, message).            *)
(***************************************************************************)
EXTENDS Integers, Sequences, FiniteSets, TLC

VARIABLES
    pc,                 \* where the program is: "load", "extract", "built", "failed", "call"
    rules,              \* the list handed to RuleSet(...): the worklist of _extract_subscope_rules
    done,               \* the local `done` of _extract_subscope_rules
    input,              \* history: the list as it was when RuleSet(...) was called
    uuid,               \* how many uuid4() values have been drawn
    err,                \* the exception RuleSet(...) ended with, or NoError
    file_rules,         \* RuleSet.file_rules
    function_rules,     \* RuleSet.function_rules
    basic_block_rules,  \* RuleSet.basic_block_rules
    index,              \* RuleSet.rules: the rules indexed by name
    call,               \* the last literal-grammar call: [fn, args]
    ret                 \* and what it returned or raised

vars == <<pc, rules, done, input, uuid, err, file_rules, function_rules,
          basic_block_rules, index, call, ret>>

-----------------------------------------------------------------------------
(* Python values and results *)

PyStr(s) == [t |-> "str", v |-> s]
PyInt(n) == [t |-> "int", v |-> <<n>>]
PyBool(b) == [t |-> "bool", v |-> <<b>>]
PyFloat == [t |-> "float", v |-> <<>>]
PyNone == [t |-> "NoneType", v |-> <<>>]
PyList(l) == [t |-> "list", v |-> l]
PyDict(items) == [t |-> "dict", v |-> items]
Item(key, value) == [k |-> key, v |-> value]

\* isinstance(x, int): bool is a subclass of int
IsInt(x) == x.t \in {"int", "bool"}
IsStr(x) == x.t = "str"

Ok(x) == [ok |-> TRUE, val |-> x]
\* an exception: its class, its message and what the message names
RaiseWith(e, m, args) == [ok |-> FALSE, args |-> args, exc |-> e, msg |-> m]
Raise(e, m) == RaiseWith(e, m, <<>>)

\* the rest of a computation, G, runs on r's value unless r is an exception
Then(r, G(_)) == IF r.ok THEN G(r.val) ELSE r
\* except (...): raise ...: an exception r is replaced by e
Except(r, e) == IF r.ok THEN r ELSE e

-----------------------------------------------------------------------------
(* str methods, on sequences of characters *)

StartsWith(s, p) == Len(s) >= Len(p) /\ SubSeq(s, 1, Len(p)) = p
EndsWith(s, p) == Len(s) >= Len(p) /\ SubSeq(s, Len(s) - Len(p) + 1, Len(s)) = p

\* s[a:-b] for a, b > 0
Inner(s, a, b) == IF Len(s) - b >= a + 1 THEN SubSeq(s, a + 1, Len(s) - b) ELSE <<>>
\* s[:-b]
DropLast(s, b) == Inner(s, 0, b)

Whitespace == {" "}

RECURSIVE LStrip(_)
LStrip(s) == IF s # <<>> /\ Head(s) \in Whitespace THEN LStrip(Tail(s)) ELSE s

RECURSIVE RStrip(_)
RStrip(s) == IF s # <<>> /\ s[Len(s)] \in Whitespace THEN RStrip(SubSeq(s, 1, Len(s) - 1)) ELSE s

Strip(s) == RStrip(LStrip(s))

Contains(s, c) == \E i \in 1..Len(s) : s[i] = c
IndexOf(s, c) == CHOOSE i \in 1..Len(s) : s[i] = c /\ \A j \in 1..(i - 1) : s[j] # c

\* s.partition(c): <<before, separator, after>>
Partition(s, c) ==
    IF Contains(s, c)
    THEN <<SubSeq(s, 1, IndexOf(s, c) - 1), <<c>>, SubSeq(s, IndexOf(s, c) + 1, Len(s))>>
    ELSE <<s, <<>>, <<>>>>

\* s.replace(c, '')
RECURSIVE Remove(_, _)
Remove(s, c) ==
    IF s = <<>> THEN <<>>
    ELSE IF Head(s) = c THEN Remove(Tail(s), c) ELSE <<Head(s)>> \o Remove(Tail(s), c)

DigitChars == <<"0", "1", "2", "3", "4", "5", "6", "7", "8", "9", "a", "b", "c", "d", "e", "f">>
DigitValue(c) == (CHOOSE i \in 1..Len(DigitChars) : DigitChars[i] = c) - 1
IsDigit(c, base) == \E i \in 1..base : DigitChars[i] = c

RECURSIVE Digits(_, _, _)
Digits(s, base, acc) ==
    IF s = <<>> THEN acc ELSE Digits(Tail(s), base, acc * base + DigitValue(Head(s)))

\* int(s, base): surrounding whitespace and a sign are accepted, as is the 0x prefix
\* in base 16; anything else is a ValueError
Unprefixed(s, base) == IF base = 16 /\ StartsWith(s, <<"0", "x">>) THEN SubSeq(s, 3, Len(s)) ELSE s

AllDigits(body, base) ==
    IF body # <<>> /\ \A i \in 1..Len(body) : IsDigit(body[i], base)
    THEN Ok(Digits(body, base, 0))
    ELSE Raise("ValueError", "invalid literal for int()")

Signed(t, base) ==
    IF t # <<>> /\ Head(t) = "-"
    THEN Then(AllDigits(Unprefixed(Tail(t), base), base), LAMBDA n : Ok(0 - n))
    ELSE IF t # <<>> /\ Head(t) = "+" THEN AllDigits(Unprefixed(Tail(t), base), base)
    ELSE AllDigits(Unprefixed(t, base), base)

int(s, base) == Signed(Strip(s), base)

-----------------------------------------------------------------------------
(* the strings of the rule language *)

S_and == <<"a", "n", "d">>
S_or == <<"o", "r">>
S_not == <<"n", "o", "t">>
S_optional == <<"o", "p", "t", "i", "o", "n", "a", "l">>
S_or_more == <<"o", "r", " ", "m", "o", "r", "e">>
S_sp_or_more == <<" ">> \o S_or_more
S_sp_or_fewer == <<" ", "o", "r", " ", "f", "e", "w", "e", "r">>
S_function == <<"f", "u", "n", "c", "t", "i", "o", "n">>
S_basic_block == <<"b", "a", "s", "i", "c", " ", "b", "l", "o", "c", "k">>
S_basic_blocks == S_basic_block \o <<"s">>
S_count_ == <<"c", "o", "u", "n", "t", "(">>
S_characteristic_ == <<"c", "h", "a", "r", "a", "c", "t", "e", "r", "i", "s", "t", "i", "c", "(">>
S_api == <<"a", "p", "i">>
S_string == <<"s", "t", "r", "i", "n", "g">>
S_bytes == <<"b", "y", "t", "e", "s">>
S_number == <<"n", "u", "m", "b", "e", "r">>
S_offset == <<"o", "f", "f", "s", "e", "t">>
S_mnemonic == <<"m", "n", "e", "m", "o", "n", "i", "c">>
S_export == <<"e", "x", "p", "o", "r", "t">>
S_import == <<"i", "m", "p", "o", "r", "t">>
S_section == <<"s", "e", "c", "t", "i", "o", "n">>
S_match == <<"m", "a", "t", "c", "h">>

FILE_SCOPE == <<"f", "i", "l", "e">>
FUNCTION_SCOPE == S_function
BASIC_BLOCK_SCOPE == S_basic_block
Scopes == {FILE_SCOPE, FUNCTION_SCOPE, BASIC_BLOCK_SCOPE}


-----------------------------------------------------------------------------
(* the feature vocabulary *)

\* an entry of SUPPORTED_FEATURES: a feature class, or a Characteristic instance
Class(kind) == [kind |-> kind, isa |-> "type", name |-> <<>>]
Characteristic(name) == [kind |-> "Characteristic", isa |-> "instance", name |-> name]

C_embedded_pe == <<"e", "m", "b", "e", "d", "d", "e", "d", " ", "p", "e">>
C_switch == <<"s", "w", "i", "t", "c", "h">>
C_nzxor == <<"n", "z", "x", "o", "r">>
C_peb_access == <<"p", "e", "b", " ", "a", "c", "c", "e", "s", "s">>
C_fs_access == <<"f", "s", " ", "a", "c", "c", "e", "s", "s">>
C_gs_access == <<"g", "s", " ", "a", "c", "c", "e", "s", "s">>
C_cross_section_flow == <<"c", "r", "o", "s", "s", " ", "s", "e", "c", "t", "i", "o", "n", " ", "f", "l", "o", "w">>
C_stack_string == <<"s", "t", "a", "c", "k", " ", "s", "t", "r", "i", "n", "g">>
C_calls_from == <<"c", "a", "l", "l", "s", " ", "f", "r", "o", "m">>
C_calls_to == <<"c", "a", "l", "l", "s", " ", "t", "o">>
C_indirect_call == <<"i", "n", "d", "i", "r", "e", "c", "t", " ", "c", "a", "l", "l">>
C_loop == <<"l", "o", "o", "p">>
C_tight_loop == <<"t", "i", "g", "h", "t", " ">> \o C_loop
C_recursive_call == <<"r", "e", "c", "u", "r", "s", "i", "v", "e", " ", "c", "a", "l", "l">>

SUPPORTED_FEATURES(scope) ==
    CASE scope = FILE_SCOPE ->
            {Class("MatchedRule"), Class("Export"), Class("Import"), Class("Section"),
             Characteristic(C_embedded_pe), Class("String")}
      [] scope = FUNCTION_SCOPE ->
            {Class("MatchedRule"), Class("API"), Class("Number"), Class("String"),
             Class("Bytes"), Class("Offset"), Class("Mnemonic"), Class("BasicBlock"),
             Characteristic(C_switch), Characteristic(C_nzxor), Characteristic(C_peb_access),
             Characteristic(C_fs_access), Characteristic(C_gs_access),
             Characteristic(C_cross_section_flow), Characteristic(C_stack_string),
             Characteristic(C_calls_from), Characteristic(C_calls_to),
             Characteristic(C_indirect_call), Characteristic(C_loop),
             Characteristic(C_recursive_call)}
      [] scope = BASIC_BLOCK_SCOPE ->
            {Class("MatchedRule"), Class("API"), Class("Number"), Class("String"),
             Class("Bytes"), Class("Offset"), Class("Mnemonic"),
             Characteristic(C_nzxor), Characteristic(C_peb_access),
             Characteristic(C_fs_access), Characteristic(C_gs_access),
             Characteristic(C_cross_section_flow), Characteristic(C_tight_loop),
             Characteristic(C_stack_string), Characteristic(C_indirect_call)}

\* a feature object: Characteristic(name, value) keeps its name as first argument,
\* MatchedRule(rule_name) the name of the rule
Feature(kind, args) == [args |-> args, kind |-> kind, type |-> "Feature"]
MatchedRule(rule_name) == Feature("MatchedRule", <<rule_name>>)

\* whether ensure_feature_valid_for_scope lets the feature pass
FeatureValid(scope, feature) ==
    IF feature.kind = "Characteristic"
    THEN Characteristic(feature.args[1].v) \in SUPPORTED_FEATURES(scope)
    ELSE feature.kind \in {e.kind : e \in {x \in SUPPORTED_FEATURES(scope) : x.isa = "type"}}

ensure_feature_valid_for_scope(scope, feature) ==
    IF FeatureValid(scope, feature)
    THEN Ok(feature)
    ELSE Raise("InvalidRule", "feature not support for scope")

-----------------------------------------------------------------------------
(* the literal grammars *)

parse_int(s) == IF StartsWith(s, <<"0", "x">>) THEN int(s, 16) ELSE int(s, 10)

\* one bound of a range: '' is None, anything else goes through parse_int
RangeBound(s, below_zero) ==
    IF s = <<>> THEN Ok(PyNone)
    ELSE Then(parse_int(s),
              LAMBDA n : IF n < 0 THEN Raise("InvalidRule", below_zero) ELSE Ok(PyInt(n)))

RangeOf(min, max) ==
    IF min # PyNone /\ max # PyNone /\ max.v[1] < min.v[1]
    THEN Raise("InvalidRule", "range max less than min")
    ELSE Ok(<<min, max>>)

RangeParts(p) ==
    Then(RangeBound(Strip(p[1]), "range min less than zero"),
         LAMBDA min : Then(RangeBound(Strip(p[3]), "range max less than zero"),
                           LAMBDA max : RangeOf(min, max)))

parse_range(s) ==
    IF ~StartsWith(s, <<"(">>) THEN Raise("InvalidRule", "invalid range")
    ELSE IF ~EndsWith(s, <<")">>) THEN Raise("InvalidRule", "invalid range")
    ELSE RangeParts(Partition(Inner(s, 1, 1), ","))

\* a feature class as parse_feature returns it; the characteristic closure keeps its name
FeatureClass(kind, name) == [name |-> name, cls |-> kind]

parse_feature(key) ==
    CASE key = S_api -> Ok(FeatureClass("API", <<>>))
      [] key = S_string -> Ok(FeatureClass("String", <<>>))
      [] key = S_bytes -> Ok(FeatureClass("Bytes", <<>>))
      [] key = S_number -> Ok(FeatureClass("Number", <<>>))
      [] key = S_offset -> Ok(FeatureClass("Offset", <<>>))
      [] key = S_mnemonic -> Ok(FeatureClass("Mnemonic", <<>>))
      [] key = S_basic_blocks -> Ok(FeatureClass("BasicBlock", <<>>))
      [] StartsWith(key, S_characteristic_) /\ EndsWith(key, <<")">>) ->
            Ok(FeatureClass("Characteristic", Inner(key, Len(S_characteristic_), 1)))
      [] key = S_export -> Ok(FeatureClass("Export", <<>>))
      [] key = S_import -> Ok(FeatureClass("Import", <<>>))
      [] key = S_section -> Ok(FeatureClass("Section", <<>>))
      [] key = S_match -> Ok(FeatureClass("MatchedRule", <<>>))
      [] OTHER -> Raise("InvalidRule", "unexpected statement")

\* Feature(*args) for a class returned by parse_feature
New(F, args) ==
    IF F.cls = "Characteristic" THEN Feature(F.cls, <<PyStr(F.name)>> \o args)
    ELSE Feature(F.cls, args)

MAX_BYTES_FEATURE_SIZE == 256

\* codecs.decode(s, 'hex'): an even number of hex digits, else binascii.Error
RECURSIVE HexBytes(_)
HexBytes(s) ==
    IF s = <<>> THEN <<>>
    ELSE <<16 * DigitValue(s[1]) + DigitValue(s[2])>> \o HexBytes(SubSeq(s, 3, Len(s)))

hex_decode(s) ==
    IF Len(s) % 2 = 0 /\ \A i \in 1..Len(s) : IsDigit(s[i], 16)
    THEN Ok([t |-> "bytes", v |-> HexBytes(s)])
    ELSE Raise("binascii.Error", "Non-hexadecimal digit found")

BytesValue(b, symbol) ==
    IF Len(b.v) > MAX_BYTES_FEATURE_SIZE
    THEN Raise("InvalidRule", "unexpected bytes value: byte sequences too large")
    ELSE Ok(<<b, symbol>>)

\* parse_symbol's second half: the value, once the symbol is split off
SymbolValue(value, symbol, value_type) ==
    IF IsStr(value)
    THEN IF value_type = S_bytes
         THEN Then(Except(hex_decode(Remove(value.v, " ")),
                          Raise("InvalidRule", "unexpected bytes value, must be a valid hex sequence")),
                   LAMBDA b : BytesValue(b, symbol))
         ELSE Then(Except(parse_int(value.v),
                          Raise("InvalidRule", "unexpected value, must begin with numerical value")),
                   LAMBDA n : Ok(<<PyInt(n), symbol>>))
    ELSE Ok(<<value, symbol>>)

SplitSymbol(p, value_type) ==
    IF Strip(p[3]) = <<>>
    THEN Raise("InvalidRule", "unexpected value, symbol name cannot be empty")
    ELSE SymbolValue(PyStr(p[1]), PyStr(Strip(p[3])), value_type)

parse_symbol(s, value_type) ==
    IF IsStr(s) /\ Contains(s.v, "=")
    THEN SplitSymbol(Partition(s.v, "="), value_type)
    ELSE SymbolValue(s, PyNone, value_type)

-----------------------------------------------------------------------------
(* the statement nodes of capa.engine, as build_statements constructs them *)

And(children) == [type |-> "And", children |-> children]
Or(children) == [type |-> "Or", children |-> children]
Not(child) == [type |-> "Not", child |-> child]
Some(count, children) == [type |-> "Some", children |-> children, count |-> count]
Range(feature, min, max) == [type |-> "Range", min |-> min, max |-> max, child |-> feature]
Subscope(scope, child) == [scope |-> scope, type |-> "Subscope", child |-> child]

\* re.compile(pattern): a pattern with an unclosed group does not compile
RECURSIVE Balance(_, _)
Balance(s, depth) ==
    IF s = <<>> THEN depth
    ELSE IF depth < 0 THEN depth
    ELSE Balance(Tail(s), depth + (IF Head(s) = "(" THEN 1 ELSE IF Head(s) = ")" THEN 0 - 1 ELSE 0))

RegexOf(pattern, pat) ==
    IF Balance(pat, 0) = 0
    THEN Ok([type |-> "Regex", pattern |-> pattern])
    ELSE Raise("re.error", "missing ), unterminated subpattern")

Regex(pattern) ==
    RegexOf(pattern, IF EndsWith(pattern, <<"/", "i">>) THEN Inner(pattern, 1, 2)
                     ELSE Inner(pattern, 1, 1))

StatementTypes == {"And", "Or", "Not", "Some", "Range", "Regex", "Subscope"}
IsStatement(node) == node.type \in StatementTypes
IsSubscope(node) == node.type = "Subscope"
IsMatchedRule(node) == node.type = "Feature" /\ node.kind = "MatchedRule"

-----------------------------------------------------------------------------
(* build_statements *)

\* Feature(*args), checked against the scope
Checked(scope, F, args) == ensure_feature_valid_for_scope(scope, New(F, args))

\* count(<kind>(<arg>)) and count(<kind>): p is the term, split at its first '('
CountedTerm(p, scope) ==
    Then(parse_feature(p[1]),
         LAMBDA F : IF p[3] # <<>>
                    THEN IF p[1] \in {S_number, S_offset, S_bytes}
                         THEN Then(parse_symbol(PyStr(DropLast(p[3], 1)), p[1]),
                                   LAMBDA vs : Checked(scope, F, vs))
                         ELSE Checked(scope, F, <<PyStr(DropLast(p[3], 1))>>)
                    ELSE Checked(scope, F, <<>>))

\* the feature counted by a count(<term>) key
CountedFeature(term, scope) ==
    IF StartsWith(term, S_characteristic_)
    THEN Then(parse_feature(term), LAMBDA F : Checked(scope, F, <<PyBool(TRUE)>>))
    ELSE CountedTerm(Partition(term, "("), scope)

\* the Range built from the value of a count(<term>) key
CountRange(feature, count) ==
    IF IsInt(count) THEN Ok(Range(feature, count, count))
    ELSE IF ~IsStr(count) THEN Raise("AttributeError", "object has no attribute 'endswith'")
    ELSE IF EndsWith(count.v, S_sp_or_more)
    THEN Then(parse_int(DropLast(count.v, Len(S_sp_or_more))),
              LAMBDA min : Ok(Range(feature, PyInt(min), PyNone)))
    ELSE IF EndsWith(count.v, S_sp_or_fewer)
    THEN Then(parse_int(DropLast(count.v, Len(S_sp_or_fewer))),
              LAMBDA max : Ok(Range(feature, PyNone, PyInt(max))))
    ELSE IF StartsWith(count.v, <<"(">>)
    THEN Then(parse_range(count.v), LAMBDA r : Ok(Range(feature, r[1], r[2])))
    ELSE Raise("InvalidRule", "unexpected range")

\* a feature leaf: the last branch of build_statements
FeatureLeaf(key, value, scope) ==
    Then(parse_feature(key),
         LAMBDA F : IF key \in {S_number, S_offset, S_bytes}
                    THEN Then(parse_symbol(value, key), LAMBDA vs : Checked(scope, F, vs))
                    ELSE Checked(scope, F, <<value>>))

RECURSIVE build_statements(_, _)
RECURSIVE BuildAll(_, _, _)

\* [build_statements(dd, scope) for dd in dds]: the first exception ends the comprehension
BuildAll(dds, scope, built) ==
    IF dds = <<>> THEN Ok(built)
    ELSE Then(build_statements(Head(dds), scope),
              LAMBDA b : BuildAll(Tail(dds), scope, Append(built, b)))

\* a subscope clause: exactly one child, built at the subscope
SubscopeStatement(value, subscope) ==
    IF Len(value.v) # 1
    THEN Raise("InvalidRule", "subscope must have exactly one child statement")
    ELSE Then(BuildAll(value.v, subscope, <<>>), LAMBDA c : Ok(Subscope(subscope, c[1])))

\* the statement of a single key, its value and the scope
Statement(key, value, scope) ==
    CASE key = S_and -> Then(BuildAll(value.v, scope, <<>>), LAMBDA c : Ok(And(c)))
      [] key = S_or -> Then(BuildAll(value.v, scope, <<>>), LAMBDA c : Ok(Or(c)))
      [] key = S_not ->
            IF Len(value.v) # 1
            THEN Raise("InvalidRule", "not statement must have exactly one child statement")
            ELSE Then(BuildAll(value.v, scope, <<>>), LAMBDA c : Ok(Not(c[1])))
      [] EndsWith(key, S_sp_or_more) ->
            Then(int(DropLast(key, Len(S_or_more)), 10),
                 LAMBDA count : Then(BuildAll(value.v, scope, <<>>),
                                     LAMBDA c : Ok(Some(count, c))))
      [] key = S_optional -> Then(BuildAll(value.v, scope, <<>>), LAMBDA c : Ok(Some(0, c)))
      [] key = S_function ->
            IF scope # FILE_SCOPE
            THEN Raise("InvalidRule", "function subscope supported only for file scope")
            ELSE SubscopeStatement(value, FUNCTION_SCOPE)
      [] key = S_basic_block ->
            IF scope # FUNCTION_SCOPE
            THEN Raise("InvalidRule", "basic block subscope supported only for function scope")
            ELSE SubscopeStatement(value, BASIC_BLOCK_SCOPE)
      [] StartsWith(key, S_count_) /\ EndsWith(key, <<")">>) ->
            Then(CountedFeature(Inner(key, Len(S_count_), 1), scope),
                 LAMBDA feature : CountRange(feature, value))
      [] key = S_string /\ ~IsStr(value) ->
            Raise("AttributeError", "object has no attribute 'startswith'")
      [] /\ key = S_string /\ IsStr(value)
         /\ StartsWith(value.v, <<"/">>)
         /\ (EndsWith(value.v, <<"/">>) \/ EndsWith(value.v, <<"/", "i">>)) ->
            Except(Regex(value.v), Raise("InvalidRule", "invalid regular expression"))
      [] OTHER -> FeatureLeaf(key, value, scope)

build_statements(d, scope) ==
    IF Len(d.v) # 1 THEN Raise("InvalidRule", "too many statements")
    ELSE Statement(d.v[1].k, d.v[1].v, scope)

-----------------------------------------------------------------------------
(* Rule *)

\* Rule(name, scope, statement, meta); the definition text is not modelled
Rule(name, scope, statement, meta) ==
    [name |-> name, scope |-> scope, statement |-> statement, meta |-> meta]

\* meta.get(key, default)
Get(meta, key, default) == IF key \in DOMAIN meta THEN meta[key] ELSE default

\* the truth value of a Python object
Truthy(x) ==
    CASE x.t = "bool" -> x.v[1]
      [] x.t = "int" -> x.v[1] # 0
      [] OTHER -> x.v # <<>>

\* Statement.get_children: the `child`, or the `children`, of a statement node
get_children(node) ==
    IF ~IsStatement(node) THEN <<>>
    ELSE IF "child" \in DOMAIN node THEN <<node.child>>
    ELSE IF "children" \in DOMAIN node THEN node.children
    ELSE <<>>

\* Statement.replace_child, for the child at place i of get_children
replace_child(node, i, new) ==
    IF "child" \in DOMAIN node THEN [node EXCEPT !.child = new]
    ELSE [node EXCEPT !.children[i] = new]

\* Rule.get_dependencies: the names of the match leaves, found through get_children
RECURSIVE Deps(_)
Deps(statement) ==
    IF IsMatchedRule(statement) THEN {statement.args[1]}
    ELSE IF IsStatement(statement)
    THEN UNION {Deps(get_children(statement)[i]) : i \in 1..Len(get_children(statement))}
    ELSE {}

get_dependencies(rule) == Deps(rule.statement)

\* uuid.uuid4().hex: the n-th value drawn, each one new
Hex(n) == <<DigitChars[(n \div 16) + 1], DigitChars[(n % 16) + 1]>>

SubscopeRuleName(self, n) == PyStr(self.name.v \o <<"/">> \o Hex(n))

\* the rule _extract_subscope_rules_rec creates from a subscope child
SubscopeRule(self, subscope, name) ==
    Rule(name, subscope.scope, subscope.child,
         [k \in {"name", "scope", "lib", "capa/subscope-rule", "capa/parent"} |->
            CASE k = "name" -> name
              [] k = "scope" -> PyStr(subscope.scope)
              [] k = "lib" -> PyBool(TRUE)
              [] k = "capa/subscope-rule" -> PyBool(TRUE)
              [] k = "capa/parent" -> self.name])

\* An extraction in progress: the statement as rewritten so far, the rules yielded so
\* far, and the number of uuids drawn.
Extraction(statement, new, n) == [n |-> n, statement |-> statement, new |-> new]

\* the replacement without its yield: the new rule is lost
SubscopeRuleNotYielded(self, x, i, subscope, name) ==
    Extraction(replace_child(x.statement, i, MatchedRule(name)), x.new, x.n + 1)

\* a subscope child becomes a rule of the given name and is replaced by a match of it
ReplaceSubscope(self, x, i, subscope, name) ==
    Extraction(replace_child(x.statement, i, MatchedRule(name)),
               Append(x.new, SubscopeRule(self, subscope, name)),
               x.n + 1)

\* the first loop of _extract_subscope_rules_rec, over the children that are Subscopes
RECURSIVE ReplaceSubscopes(_, _, _)
ReplaceSubscopes(self, x, i) ==
    IF i > Len(get_children(x.statement)) THEN x
    ELSE IF IsSubscope(get_children(x.statement)[i])
    THEN ReplaceSubscopes(self,
            ReplaceSubscope(self, x, i, get_children(x.statement)[i],
                            SubscopeRuleName(self, x.n + 1)),
            i + 1)
    ELSE ReplaceSubscopes(self, x, i + 1)

RECURSIVE extract_subscope_rules_rec(_, _, _, _)
RECURSIVE RecurseChildren(_, _, _)

\* the child at place i, as the recursion c left it
PutBack(x, i, c) == Extraction(replace_child(x.statement, i, c.statement), c.new, c.n)

\* the second loop: recurse into each child of the rewritten statement
RecurseChildren(self, x, i) ==
    IF i > Len(get_children(x.statement)) THEN x
    ELSE RecurseChildren(self,
            PutBack(x, i, extract_subscope_rules_rec(self, get_children(x.statement)[i],
                                                     x.new, x.n)),
            i + 1)

extract_subscope_rules_rec(self, statement, new, n) ==
    IF IsStatement(statement)
    THEN RecurseChildren(self, ReplaceSubscopes(self, Extraction(statement, new, n), 1), 1)
    ELSE Extraction(statement, new, n)

Extracted(self, x) == [n |-> x.n, new |-> x.new, rule |-> [self EXCEPT !.statement = x.statement]]

\* Rule.extract_subscope_rules, consumed to its end: the rule as mutated, the rules
\* yielded, the uuids drawn
extract_subscope_rules(self, n) ==
    Extracted(self, extract_subscope_rules_rec(self, self.statement, <<>>, n))

\* Rule.from_dict, for d['rule'] = [meta |-> .., features |-> <<..>>]
from_dict(d) ==
    IF Len(d.features) # 1
    THEN Raise("InvalidRule", "rule must begin with a single top level statement")
    ELSE IF d.features[1].t = "Subscope"
    THEN Raise("InvalidRule", "top level statement may not be a subscope")
    ELSE Then(build_statements(d.features[1], Get(d.meta, "scope", PyStr(FUNCTION_SCOPE)).v),
              LAMBDA statement :
                Ok(Rule(d.meta["name"], Get(d.meta, "scope", PyStr(FUNCTION_SCOPE)).v,
                        statement, d.meta)))

-----------------------------------------------------------------------------
(* the dependency and integrity checks *)

Range1(seq) == {seq[i] : i \in 1..Len(seq)}

\* {rule.name: rule for rule in rules}: a later rule replaces an earlier one of the same name
ByName(rs) ==
    [name \in {rs[i].name : i \in 1..Len(rs)} |->
        rs[CHOOSE i \in 1..Len(rs) :
              rs[i].name = name /\ \A j \in (i + 1)..Len(rs) : rs[j].name # name]]

\* ensure_rules_are_unique without its raise: a repeated name passes
UniqueNotEnsured(rs) == Ok({rs[i].name : i \in 1..Len(rs)})

RECURSIVE UniqueFrom(_, _, _)
UniqueFrom(rs, i, seen) ==
    IF i > Len(rs) THEN Ok(seen)
    ELSE IF rs[i].name \in seen
    THEN RaiseWith("InvalidRule", "duplicate rule name", <<rs[i].name>>)
    ELSE UniqueFrom(rs, i + 1, seen \cup {rs[i].name})

ensure_rules_are_unique(rs) == UniqueFrom(rs, 1, {})

\* ensure_rule_dependencies_are_met without its raise: an unmet dependency passes
DependenciesNotEnsured(rs) == {Ok(TRUE)}

\* ensure_rule_dependencies_are_met: the rules and their dependencies are visited in
\* dict and set order, so any unmet dependency can be the one the exception names
MissingDependencies(rs) ==
    LET byname == ByName(rs)
    IN  UNION {{<<name, dep>> : dep \in get_dependencies(byname[name]) \ DOMAIN byname} :
                  name \in DOMAIN byname}

ensure_rule_dependencies_are_met(rs) ==
    IF MissingDependencies(rs) = {} THEN {Ok(TRUE)}
    ELSE {RaiseWith("InvalidRule", "rule depends on missing rule", m) : m \in MissingDependencies(rs)}

RecursionOverflow == [t |-> "RecursionError", v |-> <<>>]
MissingKey == [t |-> "KeyError", v |-> <<>>]

\* rec without its recursion: the rule and the rules it names, no further
WantedDirectly(byname, name, depth) == {name} \cup get_dependencies(byname[name])

\* rec of get_rules_and_dependencies: the names it adds to `wanted`. It keeps no record
\* of the rules it is in, so on a dependency cycle it never returns: a chain of calls
\* longer than the collection repeats a rule, and Python ends it with a RecursionError.
\* rules[dep] of a name that is no key is a KeyError.
RECURSIVE Wanted(_, _, _)
Wanted(byname, name, depth) ==
    IF name \notin DOMAIN byname THEN {MissingKey}
    ELSE IF depth > Cardinality(DOMAIN byname) THEN {RecursionOverflow}
    ELSE {name} \cup UNION {Wanted(byname, dep, depth + 1) : dep \in get_dependencies(byname[name])}

Selected(byname, wanted) ==
    IF RecursionOverflow \in wanted
    THEN Raise("RecursionError", "maximum recursion depth exceeded")
    ELSE IF MissingKey \in wanted THEN Raise("KeyError", "rules[dep]")
    ELSE Ok({byname[n] : n \in DOMAIN byname \cap wanted})

WantedOf(byname, rule_name) == Selected(byname, Wanted(byname, rule_name, 1))

get_rules_and_dependencies(rs, rule_name) == WantedOf(ByName(rs), rule_name)

get_rules_with_scope(rs, scope) == SelectSeq(rs, LAMBDA rule : rule.scope = scope)

\* capa.engine.topologically_order_rules: every order of the collection in which no
\* rule precedes a rule it references
RECURSIVE topologically_order_rules(_)
topologically_order_rules(S) ==
    IF S = {} THEN {<<>>}
    ELSE UNION {{<<r>> \o o : o \in topologically_order_rules(S \ {r})} :
                    r \in {x \in S : \A y \in S : y.name \notin get_dependencies(x)}}

\* the lib flag of the meta not looked at
LibIgnored(rule) == FALSE

IsLib(rule) == Truthy(Get(rule.meta, "lib", PyBool(FALSE)))

\* scope_rules.update(...) for every rule: the first exception ends the loop
UnionOf(closures) ==
    IF \E c \in closures : ~c.ok
    THEN CHOOSE c \in closures : ~c.ok
    ELSE Ok(UNION {c.val : c \in closures})

\* the set _get_rules_for_scope collects: the non-lib rules with their dependencies
ScopeRules(rs) ==
    UnionOf({get_rules_and_dependencies(rs, rs[i].name) :
                i \in {j \in 1..Len(rs) : ~IsLib(rs[j])}})

\* RuleSet._get_rules_for_scope: the lists it may return, or the exception
get_rules_for_scope(rs, scope) ==
    Then(ScopeRules(rs),
         LAMBDA scope_rules :
            Ok({get_rules_with_scope(o, scope) : o \in topologically_order_rules(scope_rules)}))

-----------------------------------------------------------------------------
(* the rule documents the model compiles *)

MaxRules == 2

RuleNames == {<<"a">>, <<"b">>, <<"c">>}

Doc(key, value) == PyDict(<<Item(key, value)>>)
Mnemonic_mov == Doc(S_mnemonic, PyStr(<<"m", "o", "v">>))
Tight_loop == Doc(S_characteristic_ \o C_tight_loop \o <<")">>, PyBool(TRUE))
Match(name) == Doc(S_match, PyStr(name))
AndOf(docs) == Doc(S_and, PyList(docs))
FunctionOf(doc) == Doc(S_function, PyList(<<doc>>))
BasicBlockOf(doc) == Doc(S_basic_block, PyList(<<doc>>))

\* d['rule']['meta']: `scope` and `lib` are optional keys
Meta(name, scope, lib) ==
    [k \in {"name"} \cup (IF scope = <<>> THEN {} ELSE {"scope"}) \cup (IF lib THEN {"lib"} ELSE {}) |->
        CASE k = "name" -> PyStr(name)
          [] k = "scope" -> PyStr(scope)
          [] k = "lib" -> PyBool(TRUE)]

RuleDoc(meta, features) == [meta |-> meta, features |-> features]

\* rules and library rules of function scope (the default) that match another rule or
\* nothing, and of file scope with a function subscope that matches another rule
PlainDocs ==
    {RuleDoc(Meta(n, <<>>, lib), <<AndOf(<<Mnemonic_mov>>)>>) : n \in RuleNames, lib \in BOOLEAN}
    \cup {RuleDoc(Meta(n[1], <<>>, lib), <<AndOf(<<Match(n[2])>>)>>) :
            n \in RuleNames \X RuleNames, lib \in BOOLEAN}
    \cup {RuleDoc(Meta(n[1], FILE_SCOPE, lib), <<AndOf(<<FunctionOf(AndOf(<<Match(n[2])>>))>>)>>) :
            n \in RuleNames \X RuleNames, lib \in BOOLEAN}

\* rules with subscopes: a basic block in a function rule, a basic block in a function
\* in a file rule (with and without a combinator between them), a subscope on top
\* (with and without a subscope below it), two function subscopes side by side
SubscopeDocs ==
    {RuleDoc(Meta(n, FUNCTION_SCOPE, FALSE), <<AndOf(<<BasicBlockOf(AndOf(<<Mnemonic_mov>>))>>)>>) :
        n \in RuleNames}
    \cup {RuleDoc(Meta(<<"a">>, FILE_SCOPE, FALSE),
                  <<AndOf(<<FunctionOf(AndOf(<<BasicBlockOf(AndOf(<<Tight_loop>>))>>))>>)>>),
          RuleDoc(Meta(<<"b">>, FILE_SCOPE, FALSE), <<AndOf(<<FunctionOf(BasicBlockOf(Tight_loop))>>)>>),
          RuleDoc(Meta(<<"c">>, FILE_SCOPE, FALSE), <<FunctionOf(Mnemonic_mov)>>),
          RuleDoc(Meta(<<"c">>, FILE_SCOPE, FALSE),
                  <<FunctionOf(AndOf(<<BasicBlockOf(Mnemonic_mov)>>))>>),
          RuleDoc(Meta(<<"c">>, FILE_SCOPE, FALSE),
                  <<AndOf(<<FunctionOf(AndOf(<<Mnemonic_mov>>)), FunctionOf(AndOf(<<Mnemonic_mov>>))>>)>>)}

RuleDocs == PlainDocs \cup SubscopeDocs

\* the Rule objects a caller can hand to RuleSet(...)
CompiledRules == {from_dict(d).val : d \in {x \in RuleDocs : from_dict(x).ok}}

-----------------------------------------------------------------------------
(* RuleSet(rules) *)

NoError == Ok(TRUE)
NoCall == [args |-> <<>>, fn |-> "none"]

Init ==
    /\ pc = "load"
    /\ rules = <<>>
    /\ done = <<>>
    /\ input = <<>>
    /\ uuid = 0
    /\ err = NoError
    /\ file_rules = <<>>
    /\ function_rules = <<>>
    /\ basic_block_rules = <<>>
    /\ index = <<>>
    /\ call = NoCall
    /\ ret = NoError

\* the caller compiles one more rule document into the list it will pass
LoadRule ==
    /\ pc = "load"
    /\ Len(rules) < MaxRules
    /\ \E r \in CompiledRules : rules' = Append(rules, r)
    /\ UNCHANGED <<pc, done, input, uuid, err, file_rules, function_rules,
                   basic_block_rules, index, call, ret>>

\* RuleSet.__init__ up to the worklist: ensure_rules_are_unique(rules)
Construct ==
    /\ pc = "load"
    /\ input' = rules
    /\ IF ensure_rules_are_unique(rules).ok
       THEN pc' = "extract" /\ err' = err
       ELSE pc' = "failed" /\ err' = ensure_rules_are_unique(rules)
    /\ UNCHANGED <<rules, done, uuid, file_rules, function_rules, basic_block_rules,
                   index, call, ret>>

\* one turn of the while loop of _extract_subscope_rules
ExtractStep ==
    /\ pc = "extract"
    /\ rules # <<>>
    /\ LET x == extract_subscope_rules(Head(rules), uuid)
       IN  /\ rules' = Tail(rules) \o x.new
           /\ done' = Append(done, x.rule)
           /\ uuid' = x.n
    /\ UNCHANGED <<pc, input, err, file_rules, function_rules, basic_block_rules,
                   index, call, ret>>

Fail(e) ==
    /\ pc' = "failed"
    /\ err' = e
    /\ UNCHANGED <<file_rules, function_rules, basic_block_rules, index>>

\* the three scope lists and the name index
Scoped(file, function, basic_block) ==
    IF ~file.ok THEN Fail(file)
    ELSE /\ file_rules' \in file.val
         /\ function_rules' \in function.val
         /\ basic_block_rules' \in basic_block.val
         /\ index' = ByName(done)
         /\ pc' = "built"
         /\ err' = err

\* the rest of RuleSet.__init__, once the worklist is empty
Assemble ==
    /\ pc = "extract"
    /\ rules = <<>>
    /\ \E met \in ensure_rule_dependencies_are_met(done) :
         IF ~met.ok THEN Fail(met)
         ELSE IF Len(done) = 0 THEN Fail(Raise("InvalidRuleSet", "no rules selected"))
         ELSE Scoped(get_rules_for_scope(done, FILE_SCOPE),
                     get_rules_for_scope(done, FUNCTION_SCOPE),
                     get_rules_for_scope(done, BASIC_BLOCK_SCOPE))
    /\ UNCHANGED <<rules, done, input, uuid, call, ret>>

Next == LoadRule \/ Construct \/ ExtractStep \/ Assemble

Spec == Init /\ [][Next]_vars

\* the construction up to the end of the worklist
NextWorklist == LoadRule \/ Construct \/ ExtractStep

\* the while loop takes its next turn whenever the list is not empty. This is
\* WF_vars(ExtractStep) with ENABLED <<ExtractStep>>_vars written out: a turn can be
\* taken exactly when pc = "extract" and rules # <<>>, and it always changes done.
TurnsAreTaken ==
    []<>(~(pc = "extract" /\ rules # <<>>)) \/ []<><<ExtractStep>>_vars

SpecWorklist == Init /\ [][NextWorklist]_vars /\ TurnsAreTaken

-----------------------------------------------------------------------------
(* calls of the compiler and its literal grammars, one input at a time *)

OrMoreKeys == {n \o S_sp_or_more : n \in {<<"2">>, <<"x">>, <<>>, <<"0", "x", "2">>}}

CountKeys ==
    {S_count_ \o term \o <<")">> :
        term \in {S_mnemonic \o <<"(", "m", "o", "v", ")">>,
                  S_characteristic_ \o C_nzxor \o <<")">>,
                  S_number \o <<"(", "0", "x", "1", "0", ")">>,
                  S_number \o <<"(", "z", "z", ")">>,
                  S_basic_blocks}}

CountValues ==
    {PyInt(2), PyBool(TRUE), PyFloat, PyNone, PyStr(<<"3">>)}
    \cup {PyStr(n \o suffix) : n \in {<<"2">>, <<"x">>}, suffix \in {S_sp_or_more, S_sp_or_fewer}}
    \cup {PyStr(<<"(">> \o min \o <<",">> \o max \o <<")">>) :
            min \in {<<"1">>, <<"x">>}, max \in {<<"2">>, <<"0">>}}

LeafDocs ==
    {Doc(S_number, v) : v \in {PyInt(5), PyStr(<<"0", "x", "1", "0", " ", "=", " ", "s">>),
                              PyStr(<<"5", " ", "=">>), PyStr(<<"z", "z">>)}}
    \cup {Doc(S_bytes, PyStr(v)) : v \in {<<"0", "a", " ", "0", "b">>, <<"0", "g">>, <<"0", "a", "b">>}}
    \cup {Doc(S_string, v) : v \in {PyStr(<<"/", "a", "/">>), PyStr(<<"/", "(", "/", "i">>),
                                   PyStr(<<"a">>), PyInt(1)}}
    \cup {Doc(<<"x">>, PyStr(<<"a">>)), Doc(S_export, PyStr(<<"a">>)), Mnemonic_mov, Tight_loop,
          PyDict(<<>>), PyDict(<<Item(S_mnemonic, PyStr(<<"a">>)), Item(S_api, PyStr(<<"b">>))>>)}

StatementDocs ==
    {Doc(k, PyList(<<Mnemonic_mov>>)) : k \in OrMoreKeys \cup {S_optional, S_not, S_or, S_function, S_basic_block}}
    \cup {Doc(k, v) : k \in CountKeys, v \in CountValues}
    \cup LeafDocs
    \cup {Doc(S_not, PyList(<<Mnemonic_mov, Mnemonic_mov>>)), FunctionOf(BasicBlockOf(Tight_loop))}

RangeBounds == {<<>>, <<"1">>, <<" ", "5">>, <<"x">>, <<"-", "1">>, <<"0", "x", "1", "f">>}

RangeStrings ==
    {<<"(">> \o min \o <<",">> \o max \o <<")">> : min \in RangeBounds, max \in RangeBounds}
    \cup {<<"1", ",", "5">>, <<"(", "1", ",", "5">>, <<"(", "7", ")">>}

SymbolValues ==
    {PyInt(37), PyStr(<<"3", "7">>), PyStr(<<"0", "x", "4", "5", " ", "=", " ", "M", "Z">>),
     PyStr(<<"3", "7", " ", "=", " ">>), PyStr(<<"M", "Z">>), PyStr(<<"0", "a", "0", "b">>),
     PyStr(<<"0", "a", "0">>)}

\* documents Rule.from_dict refuses or should refuse: no or two top level statements, a
\* subscope clause on top, a Subscope object in place of the clause
TopLevelDocs ==
    {RuleDoc(Meta(<<"a">>, scope, FALSE), features) :
        scope \in Scopes \cup {<<>>},
        features \in {<<>>, <<Mnemonic_mov, Mnemonic_mov>>, <<FunctionOf(Mnemonic_mov)>>,
                      <<BasicBlockOf(Mnemonic_mov)>>,
                      <<[t |-> "Subscope", v |-> <<>>]>>}}

Call(fn, args) == [args |-> args, fn |-> fn]

InitCalls ==
    /\ pc = "call"
    /\ rules = <<>>
    /\ done = <<>>
    /\ input = <<>>
    /\ uuid = 0
    /\ err = NoError
    /\ file_rules = <<>>
    /\ function_rules = <<>>
    /\ basic_block_rules = <<>>
    /\ index = <<>>
    /\ call = NoCall
    /\ ret = NoError

Returned(c, r) ==
    /\ call' = c
    /\ ret' = r
    /\ UNCHANGED <<pc, rules, done, input, uuid, err, file_rules, function_rules,
                   basic_block_rules, index>>

CallBuildStatements ==
    /\ pc = "call"
    /\ \E d \in StatementDocs, scope \in Scopes :
          Returned(Call("build_statements", <<d, scope>>), build_statements(d, scope))

CallParseRange ==
    /\ pc = "call"
    /\ \E s \in RangeStrings : Returned(Call("parse_range", <<s>>), parse_range(s))

CallParseSymbol ==
    /\ pc = "call"
    /\ \E s \in SymbolValues, value_type \in {S_number, S_offset, S_bytes} :
          Returned(Call("parse_symbol", <<s, value_type>>), parse_symbol(s, value_type))

CallFromDict ==
    /\ pc = "call"
    /\ \E d \in RuleDocs \cup TopLevelDocs : Returned(Call("from_dict", <<d>>), from_dict(d))

NextCalls == CallBuildStatements \/ CallParseRange \/ CallParseSymbol \/ CallFromDict

SpecCalls == InitCalls /\ [][NextCalls]_vars

-----------------------------------------------------------------------------
(* RuleSet.filter_rules_by_meta *)

\* tag in v, for two strings
Substring(tag, v) == \E i \in 0..(Len(v) - Len(tag)) : SubSeq(v, i + 1, i + Len(tag)) = tag

\* some value of the rule's meta is a str that contains the tag
Tagged(rule, tag) ==
    \E key \in DOMAIN rule.meta : IsStr(rule.meta[key]) /\ Substring(tag, rule.meta[key].v)

\* self.rules.values(): the rules of the name index, in the order of their insertion
Values(byname, order) == SelectSeq(order, LAMBDA rule : byname[rule.name] = rule)

\* rules_filtered: the tagged rules with their dependencies, or the first exception
rules_filtered(values, tag) ==
    UnionOf({get_rules_and_dependencies(values, values[i].name) :
                i \in {j \in 1..Len(values) : Tagged(values[j], tag)}})

\* list(rules_filtered): a set is listed in any order
RECURSIVE Orders(_)
Orders(S) ==
    IF S = {} THEN {<<>>}
    ELSE UNION {{<<r>> \o o : o \in Orders(S \ {r})} : r \in S}

\* RuleSet._extract_subscope_rules, run to the end of its worklist
RECURSIVE Worklist(_, _, _)
WorklistTurn(rest, finished, x) == Worklist(rest \o x.new, Append(finished, x.rule), x.n)
Worklist(rs, finished, n) ==
    IF rs = <<>> THEN finished
    ELSE WorklistTurn(Tail(rs), finished, extract_subscope_rules(Head(rs), n))

\* the fields of a RuleSet
RuleSetFields(file, function, basic_block, byname) ==
    [file_rules |-> file, function_rules |-> function, basic_block_rules |-> basic_block,
     index |-> byname]

ScopedSets(rs, file, function, basic_block) ==
    IF ~file.ok THEN {file}
    ELSE {Ok(RuleSetFields(f, g, b, ByName(rs))) :
            f \in file.val, g \in function.val, b \in basic_block.val}

\* RuleSet.__init__ after the worklist, for the collection rs it left
Assembled(rs) ==
    UNION {IF ~met.ok THEN {met}
           ELSE IF Len(rs) = 0 THEN {Raise("InvalidRuleSet", "no rules selected")}
           ELSE ScopedSets(rs, get_rules_for_scope(rs, FILE_SCOPE),
                           get_rules_for_scope(rs, FUNCTION_SCOPE),
                           get_rules_for_scope(rs, BASIC_BLOCK_SCOPE)) :
              met \in ensure_rule_dependencies_are_met(rs)}

\* RuleSet(rules), as one call: the RuleSets it may return, or its exception
RuleSet(rs, n) ==
    IF ~ensure_rules_are_unique(rs).ok THEN {ensure_rules_are_unique(rs)}
    ELSE Assembled(Worklist(rs, <<>>, n))

Refiltered(filtered, n) ==
    IF ~filtered.ok THEN {filtered}
    ELSE UNION {RuleSet(o, n) : o \in Orders(filtered.val)}

filter_rules_by_meta(values, tag, n) == Refiltered(rules_filtered(values, tag), n)

Tags == {<<"a">>, <<"b">>, <<"f", "i", "l", "e">>, <<"z">>}

\* the largest RuleSet that is filtered
MaxFiltered == 4

\* ruleset.filter_rules_by_meta(tag) on the RuleSet just constructed
FilterRulesByMeta ==
    /\ pc = "built"
    /\ Len(done) <= MaxFiltered
    /\ \E tag \in Tags :
          \E r \in filter_rules_by_meta(Values(index, done), tag, uuid) :
              /\ call' = Call("filter_rules_by_meta", <<tag>>)
              /\ ret' = r
    /\ pc' = "filtered"
    /\ UNCHANGED <<rules, done, input, uuid, err, file_rules, function_rules,
                   basic_block_rules, index>>

NextFilter == Next \/ FilterRulesByMeta

SpecFilter == Init /\ [][NextFilter]_vars

-----------------------------------------------------------------------------
(* properties of the rules of a constructed RuleSet *)

\* the nodes of a statement tree, the tree itself among them
RECURSIVE Subtrees(_)
Subtrees(node) ==
    {node} \cup (IF "children" \in DOMAIN node
                 THEN UNION {Subtrees(node.children[i]) : i \in 1..Len(node.children)}
                 ELSE IF "child" \in DOMAIN node THEN Subtrees(node.child)
                 ELSE {})

\* the number of Subscope nodes in a sequence of statement trees
RECURSIVE Markers(_)
Markers(nodes) ==
    IF nodes = <<>> THEN 0
    ELSE (IF Head(nodes).type = "Subscope" THEN 1 ELSE 0)
         + Markers(IF "children" \in DOMAIN Head(nodes) THEN Head(nodes).children
                   ELSE IF "child" \in DOMAIN Head(nodes) THEN <<Head(nodes).child>>
                   ELSE <<>>)
         + Markers(Tail(nodes))

Statements(rs) == [i \in 1..Len(rs) |-> rs[i].statement]

\* C1: after RuleSet construction succeeds, no rule of the set, original or synthetic,
\* has a Subscope node anywhere in its statement tree, whenever the input rules
\* have a combinator on top.
C1_NoSubscopeSurvives ==
    (pc = "built" /\ \A i \in 1..Len(input) : input[i].statement.type # "Subscope") =>
        \A name \in DOMAIN index :
            \A node \in Subtrees(index[name].statement) : node.type # "Subscope"

\* C2: the worklist yields one synthetic rule for each Subscope node of the input
\* trees (two for a function subscope whose single child is a basic block subscope),
\* whenever no input rule has a subscope on top.
C2_OneRulePerMarker ==
    (pc = "built" /\ \A i \in 1..Len(input) : input[i].statement.type # "Subscope") =>
        Len(done) - Len(input) = Markers(Statements(input))

\* C3: Rule.from_dict returns no Rule whose root statement is a Subscope node.
C3_NoSubscopeOnTop ==
    (call.fn = "from_dict" /\ ret.ok) => ret.val.statement.type # "Subscope"

\* C4: in a constructed RuleSet every feature leaf of every rule, original or
\* synthetic, is legal for the scope of the rule.
C4_LeavesLegalForScope ==
    pc = "built" =>
        \A name \in DOMAIN index :
            \A node \in Subtrees(index[name].statement) :
                node.type = "Feature" => FeatureValid(index[name].scope, node)

\* the names the match leaves of a statement tree refer to
MatchNames(statement) ==
    {node.args[1] : node \in {x \in Subtrees(statement) : x.type = "Feature" /\ x.kind = "MatchedRule"}}

Names(rs) == {rs[i].name : i \in 1..Len(rs)}

\* the references of a collection that none of its rules answers, each with the rule
\* that makes it
Unmet(rs) ==
    UNION {{<<rs[i].name, dep>> : dep \in MatchNames(rs[i].statement) \ Names(rs)} :
              i \in 1..Len(rs)}

\* the names reached from a set of names along the references of the indexed rules
RECURSIVE Closure(_, _)
Grow(byname, names, more) == IF more \subseteq names THEN names ELSE Closure(byname, names \cup more)
Closure(byname, names) ==
    Grow(byname, names, UNION {MatchNames(byname[n].statement) \cap DOMAIN byname : n \in names})

\* the names a rule depends on, directly or through other rules
DependsOn(byname, name) == Closure(byname, MatchNames(byname[name].statement) \cap DOMAIN byname)

ListOf(scope) ==
    CASE scope = FILE_SCOPE -> file_rules
      [] scope = FUNCTION_SCOPE -> function_rules
      [] scope = BASIC_BLOCK_SCOPE -> basic_block_rules

\* C5: in a constructed RuleSet every name a match leaf refers to, the leaves that
\* extraction inserted included, is a key of the name index; and when the collection
\* after extraction refers to a name no rule has, construction fails with a
\* rule-definition error that names the rule and the dependency it misses.
C5_DependenciesMet ==
    /\ pc = "built" =>
          \A name \in DOMAIN index : MatchNames(index[name].statement) \subseteq DOMAIN index
    /\ (pc \in {"built", "failed"} /\ Unmet(done) # {}) =>
          /\ pc = "failed"
          /\ err.exc = "InvalidRule"
          /\ err.args \in Unmet(done)

\* a RuleSet with a reference written by an author and one inserted by extraction
C5_Witness ==
    /\ pc = "built"
    /\ Len(done) > Len(input)
    /\ \E i \in 1..Len(input) : MatchNames(input[i].statement) # {}

\* the rules of a scope list stand after the rules of its scope they depend on
OrderedByDependency(list) ==
    \A j \in 1..Len(list) :
        \A d \in DependsOn(index, list[j].name) :
            index[d].scope = list[j].scope => \E i \in 1..(j - 1) : list[i].name = d

\* C6: in each of file_rules, function_rules and basic_block_rules, every rule of the
\* same scope that a listed rule depends on, directly or through other rules, is in
\* the list and stands strictly before it.
C6_DependenciesFirst ==
    pc = "built" => \A scope \in Scopes : OrderedByDependency(ListOf(scope))

\* a function rule listed after a function rule it reaches only through a file rule
C6_Witness ==
    /\ pc = "built"
    /\ \E j \in 1..Len(function_rules) :
          \E d \in DependsOn(index, function_rules[j].name) \ MatchNames(function_rules[j].statement) :
              index[d].scope = FUNCTION_SCOPE

\* meta lib = true
Lib(rule) == "lib" \in DOMAIN rule.meta /\ rule.meta["lib"] = PyBool(TRUE)

\* some rule that is no library rule depends on the name, directly or through others
Needed(name) == \E q \in DOMAIN index : ~Lib(index[q]) /\ name \in DependsOn(index, q)

Places(name, scope) == {i \in 1..Len(ListOf(scope)) : ListOf(scope)[i] = index[name]}

\* C7: every rule that is no library rule is once in the list of its scope and in no
\* other list; a library rule is once in the list of its scope when a rule that is no
\* library rule depends on it, and otherwise in no list, though the name index has it.
C7_ListedInOwnScope ==
    pc = "built" =>
        \A scope \in Scopes :
            /\ Names(ListOf(scope)) \subseteq DOMAIN index
            /\ \A name \in DOMAIN index :
                  Cardinality(Places(name, scope)) =
                      IF scope = index[name].scope /\ (~Lib(index[name]) \/ Needed(name))
                      THEN 1 ELSE 0

\* a library rule in a scope list beside one that is in no list
C7_Witness ==
    /\ pc = "built"
    /\ \E name \in DOMAIN index : Lib(index[name]) /\ Places(name, index[name].scope) # {}
    /\ \E name \in DOMAIN index : Lib(index[name]) /\ Places(name, index[name].scope) = {}

\* C8: construction returns no RuleSet whose name index holds a rule on a dependency
\* cycle (A matches B matches A, or A matches A).
C8_NoCycleReturned ==
    pc = "built" => \A name \in DOMAIN index : name \notin DependsOn(index, name)

\* the first name of a list that an earlier rule of the list has
Repeats(rs) == {i \in 1..Len(rs) : \E j \in 1..(i - 1) : rs[j].name = rs[i].name}
FirstRepeated(rs) == rs[CHOOSE i \in Repeats(rs) : \A j \in Repeats(rs) : i <= j].name

\* C9: the names of a constructed RuleSet differ pairwise across the original and the
\* synthetic rules, and the name index has one entry for each rule of the collection
\* after extraction; input with a repeated name fails at the first repeated name.
C9_NamesUnique ==
    /\ pc = "built" =>
          /\ \A i, j \in 1..Len(done) : done[i].name = done[j].name => i = j
          /\ Cardinality(DOMAIN index) = Len(done)
          /\ \A i \in 1..Len(done) : index[done[i].name] = done[i]
    /\ (pc \notin {"load", "call"} /\ Repeats(input) # {}) =>
          /\ pc = "failed"
          /\ err.exc = "InvalidRule"
          /\ err.args = <<FirstRepeated(input)>>
          /\ done = <<>>

\* a RuleSet of two authored rules and the rules extracted from them
C9_Witness ==
    /\ pc = "built"
    /\ Len(input) = 2
    /\ Len(done) > Len(input)

\* C10: a failing call of build_statements, parse_range or parse_symbol ends in a
\* rule-definition error (InvalidRule), not in an error of another kind.
C10_FailuresAreInvalidRule ==
    (call.fn \in {"build_statements", "parse_range", "parse_symbol"} /\ ~ret.ok) =>
        ret.exc = "InvalidRule"

\* the names filter_rules_by_meta is to keep: the rules of the index with a str meta
\* value that contains the tag, and what they depend on
Kept(tag) ==
    UNION {{name} \cup DependsOn(index, name) :
              name \in {x \in DOMAIN index : Tagged(index[x], tag)}}

\* C11: filter_rules_by_meta(tag) fails only when no rule of the RuleSet has a str
\* meta value containing the tag; otherwise it returns a RuleSet whose name index is
\* exactly those rules of the original with all they depend on, and no other rule.
C11_FilterKeepsTaggedAndDependencies ==
    pc = "filtered" =>
        IF Kept(call.args[1]) = {}
        THEN ~ret.ok /\ ret.exc = "InvalidRuleSet"
        ELSE /\ ret.ok
             /\ DOMAIN ret.val.index = Kept(call.args[1])
             /\ \A name \in Kept(call.args[1]) : ret.val.index[name] = index[name]

\* the scope one nesting level below a scope
Narrower(scope) ==
    CASE scope = FILE_SCOPE -> FUNCTION_SCOPE
      [] scope = FUNCTION_SCOPE -> BASIC_BLOCK_SCOPE
      [] OTHER -> <<>>

\* C12: every synthetic rule of a constructed RuleSet has lib = true and a scope exactly
\* one nesting level narrower than the scope of the rule its capa/parent meta names.
C12_SyntheticOneLevelNarrower ==
    pc = "built" =>
        \A name \in DOMAIN index :
            "capa/parent" \in DOMAIN index[name].meta =>
                /\ index[name].meta["capa/parent"] \in DOMAIN index
                /\ index[name].scope = Narrower(index[index[name].meta["capa/parent"]].scope)
                /\ Lib(index[name])

\* the worklist is empty
WorklistEnded == pc = "extract" /\ rules = <<>>

\* the rules of the input stand first in the result, in their order
InputFirst ==
    /\ Len(done) >= Len(input)
    /\ \A i \in 1..Len(input) :
          /\ done[i].name = input[i].name
          /\ "capa/subscope-rule" \notin DOMAIN done[i].meta

\* after them stand the synthesized rules, one for each name drawn, each named by a
\* match leaf of the rule its meta gives as parent
SynthesizedOnce ==
    /\ Len(done) = Len(input) + uuid
    /\ \A i, j \in 1..Len(done) : done[i].name = done[j].name => i = j
    /\ \A i \in (Len(input) + 1)..Len(done) :
          /\ "capa/subscope-rule" \in DOMAIN done[i].meta
          /\ \E j \in 1..Len(done) :
                /\ done[j].name = done[i].meta["capa/parent"]
                /\ done[i].name \in MatchNames(done[j].statement)

\* C13: the worklist of RuleSet construction comes to its end, and then every input
\* rule and every synthesized rule is once in the resulting collection, the input
\* rules first and in input order.
C13_WorklistEndsWithEachRuleOnce ==
    /\ [](WorklistEnded => (InputFirst /\ SynthesizedOnce))
    /\ (pc = "extract") ~> WorklistEnded

\* the end of a worklist that took a rule synthesized from a synthesized rule
C13_Witness ==
    /\ WorklistEnded
    /\ \E i \in 1..Len(done) : \E j \in 1..Len(done) :
          /\ "capa/parent" \in DOMAIN done[i].meta
          /\ "capa/parent" \in DOMAIN done[j].meta
          /\ done[i].meta["capa/parent"] = done[j].name

\* C14: when RuleSet construction has ended, in success or in failure, the list of
\* rules the caller passed holds the same rules in the same order, each with its name,
\* scope and meta as before.
C14_CallersListKept ==
    pc \in {"built", "failed"} =>
        /\ Len(rules) = Len(input)
        /\ \A i \in 1..Len(input) :
              /\ rules[i].name = input[i].name
              /\ rules[i].scope = input[i].scope
              /\ rules[i].meta = input[i].meta

=============================================================================
